---- MODULE Spec2Model ----
(***************************************************************************)
(* Model of the drand multi-protocol core: the dispatch Server             *)
(* (core/server.go and its later drafts), the protocol factory registry    *)
(* (core/protocol.go) and the v1 protocol instance (core/v1.go,            *)
(* core/v1_public.go).                                                     *)
(*                                                                         *)
(* Identifiers are integers: 0 is the empty identifier / the nil pointer.  *)
(***************************************************************************)
EXTENDS Integers, Sequences, FiniteSets, TLC

VARIABLES
    \* ---- protocol factory registry and the v1 constructors
    factoryOf,      \* the package-level protocols map: version -> factory
    regFirst,       \* the factory each version was first registered with
    denied,         \* content of the package-level blacklist
    got,            \* the last getProtocolFactory call and what came of it
    loaded,         \* the last loadV1Protocol call and what it returned
    \* ---- Server (dispatch layer)
    protoConfigs,   \* result of SearchProtocolConfig: sequence of folders
    loadPc,         \* position of LoadProtocols: "idle","loop","alias","done","panicked"
    loadIdx,        \* index of the folder the range loop is at
    protocols,      \* Server.protocols: key -> instance (0 = no entry)
    v1ID,           \* Server.v1ID (0 = empty)
    v1Found,        \* local v1Found of LoadProtocols
    errs,           \* local errs of LoadProtocols
    loadRet,        \* value returned by LoadProtocols ("none" before it returns)
    disp,           \* the dispatch call Server.PartialBeacon in flight
    term,           \* terminate calls: what they removed and the last outcome
    \* ---- v1Protocol instance
    group,          \* v1.group   (set = FALSE models nil)
    share,          \* v1.share   (run 0 = nil)
    dkgInfo,        \* v1.dkgInfo (set = FALSE models nil)
    beacon,         \* v1.beacon: generator handle (0 = nil)
    kstore,         \* v1.store: what key.Store holds on disk
    wait,           \* the WaitDKG call in flight
    runs,           \* DKG sessions set up since start (run 1 is the loaded Group's)
    manager,        \* v1.manager: 0 = nil, n + 1 = present with n keys received
    receiver,       \* v1.receiver: 0 = nil, 1 = present, 2 = present, info pushed
    state,          \* who holds the instance lock v1.state ("free": nobody)
    \* ---- beacon generators and the chain store
    gens,           \* every generator handle ever created
    chain,          \* rounds in the beacon store, in order
    sub,            \* the PublicRandStream call of each caller address
    pb,             \* the v1Protocol.PartialBeacon call in flight
    ret,            \* outcome of the last completed RPC
    callBit,        \* flips at every completed RPC
    crashed,        \* the process died on a nil dereference
    \* ---- resharing transition
    now,            \* clock
    tr,             \* the transition call
    produced        \* rounds produced: [time, under]

serverVars == <<protoConfigs, loadPc, loadIdx, protocols, v1ID, v1Found, errs,
                loadRet, disp, term>>
dkgVars    == <<group, share, dkgInfo, kstore, wait, runs, manager, receiver,
                state>>
beaconVars == <<beacon, gens, chain, sub, pb, crashed>>
rpcVars    == <<ret, callBit>>
transVars  == <<now, tr, produced>>
factoryVars == <<factoryOf, regFirst, denied, got, loaded>>
vars       == <<factoryVars, serverVars, dkgVars, beaconVars, rpcVars, transVars>>

\* what the actions of one component leave alone
notServer  == <<factoryVars, dkgVars, beaconVars, rpcVars, transVars>>
notDkg     == <<factoryVars, serverVars, beaconVars, transVars>>
notBeacon  == <<factoryVars, serverVars, dkgVars, transVars>>
notFactory == <<serverVars, dkgVars, beaconVars, rpcVars, transVars>>

-----------------------------------------------------------------------------
\* Bounds of the model
NumKeys    == 2     \* network identifiers 1..NumKeys
MaxFolders == 2     \* folders SearchProtocolConfig may return
NumNodes   == 2     \* node indices 1..NumNodes may be invited to a Group
MaxRuns    == 1     \* DKG sessions set up on the instance
MaxHandles == 2     \* generator handles newBeacon may create
MaxRound   == 3     \* rounds the chain store may hold
MaxTime    == 4     \* clock values 0..MaxTime
InitRounds == 1     \* rounds the chain store may hold at start
NumSubs    == 2     \* caller addresses 1..NumSubs that may open a stream

Keys == 1 .. NumKeys

-----------------------------------------------------------------------------
\* Protocol factory registry (core/protocol.go)

VERSION_1 == "V1"
VERSION_2 == "BLS12381-SHA256-H(M)"
Versions  == {VERSION_1, VERSION_2, "V0"}      \* "V0": a version nobody registered

blacklist == {}

\* registerProtocol: protocols[v] = f
registerProtocol(reg, v, f) == [reg EXCEPT ![v] = f]

\* the package-level map after the init() functions of v1.go and v2.go ran
factories ==
    registerProtocol(registerProtocol([v \in Versions |-> "none"],
                                      VERSION_1, "factoryv1"),
                     VERSION_2, "factoryv2")

\* A getProtocolFactory that consults the map before the blacklist.
getProtocolFactoryMapFirst(bl, reg, v) ==
    IF reg[v] = "none" THEN "panic: no registered protocols for this version"
    ELSE IF v \in bl THEN "panic: blacklisted protocol"
         ELSE reg[v]

\* getProtocolFactory against a given blacklist and map: panics on a
\* blacklisted or unregistered version, the blacklist loop first
getProtocolFactoryIn(bl, reg, v) ==
    IF v \in bl THEN "panic: blacklisted protocol"
    ELSE IF reg[v] = "none"
         THEN "panic: no registered protocols for this version"
         ELSE reg[v]

\* getProtocolFactory once the init() functions ran
getProtocolFactory(v) == getProtocolFactoryIn(blacklist, factories, v)

IsPanic(f) == f \in {"panic: blacklisted protocol",
                     "panic: no registered protocols for this version"}

Factories == {"factoryv1", "factoryv2"}
NoFactory == [v \in Versions |-> "none"]    \* make(map[Version]ProtocolFactory)
NoGot     == [v |-> "none", out |-> "none"]

\* a call of registerProtocol(v, f), from an init() or anywhere else in the
\* package
Register(v, f) ==
    /\ factoryOf' = registerProtocol(factoryOf, v, f)
    /\ regFirst' = IF regFirst[v] = "none"
                   THEN [regFirst EXCEPT ![v] = f] ELSE regFirst
    /\ UNCHANGED <<denied, got, loaded>>
    /\ UNCHANGED notFactory

\* a call of getProtocolFactory(v)
GetFactory(v) ==
    /\ got' = [v |-> v, out |-> getProtocolFactoryIn(denied, factoryOf, v)]
    /\ UNCHANGED <<factoryOf, regFirst, denied, loaded>>
    /\ UNCHANGED notFactory

-----------------------------------------------------------------------------
\* Server (src/unnamed/part_000)

\* A folder: its version, the Key() of the protocol in it, and whether
\* factory.Load succeeds on it.
Folder == [version : Versions, key : Keys, loadOk : BOOLEAN]

\* Folders are named by their group hash: no two share a key.
FolderLists ==
    UNION { { f \in [1 .. n -> Folder] :
                \A i, j \in 1 .. n : i # j => f[i].key # f[j].key } :
            n \in 0 .. MaxFolders }

NoDispatch == [pc |-> "idle", in |-> 0, id |-> 0, result |-> "none", target |-> 0]
NoTerm     == [ids |-> {}, insts |-> {}, id |-> 0, err |-> "none", bit |-> FALSE]

InitServerVars ==
    /\ protoConfigs \in FolderLists
    /\ loadPc = "idle"
    /\ loadIdx = 0
    /\ protocols = [k \in Keys |-> 0]
    /\ v1ID = 0
    /\ v1Found = FALSE
    /\ errs = <<>>
    /\ loadRet = "none"
    /\ disp = NoDispatch
    /\ term = NoTerm

\* LoadProtocols, entry: protoConfigs = ..., var errs, var v1Found
LoadBegin ==
    /\ loadPc = "idle"
    /\ loadPc' = "loop"
    /\ loadIdx' = 1
    /\ errs' = <<>>
    /\ v1Found' = FALSE
    /\ UNCHANGED <<protoConfigs, protocols, v1ID, loadRet, disp>>
    /\ UNCHANGED <<term, notServer>>

\* LoadProtocols, one iteration of the range loop up to the insertion into
\* the map (lines 145-152). No lock is taken anywhere in LoadProtocols.
LoadStep ==
    /\ loadPc = "loop"
    /\ loadIdx <= Len(protoConfigs)
    /\ LET c == protoConfigs[loadIdx]
           factory == getProtocolFactory(c.version)
       IN IF IsPanic(factory)
          THEN /\ loadPc' = "panicked"
               /\ UNCHANGED <<loadIdx, protocols, errs>>
          ELSE IF ~c.loadOk
          THEN \* errs = append(errs, err.String()); continue
               /\ errs' = Append(errs, "load")
               /\ loadIdx' = loadIdx + 1
               /\ UNCHANGED <<loadPc, protocols>>
          ELSE \* s.protocols[protocol.Key()] = protocol
               /\ protocols' = [protocols EXCEPT ![c.key] = loadIdx]
               /\ loadPc' = "alias"
               /\ UNCHANGED <<loadIdx, errs>>
    /\ UNCHANGED <<protoConfigs, v1ID, v1Found, loadRet, disp>>
    /\ UNCHANGED <<term, notServer>>

\* An iteration that takes the instance it just loaded as the legacy one
\* whatever its version.
LoadAliasAnyVersion ==
    /\ loadPc = "alias"
    /\ LET c == protoConfigs[loadIdx]
       IN IF v1Found
          THEN /\ errs' = Append(errs, "V1 duplicate protocol found")
               /\ UNCHANGED <<v1ID, v1Found>>
          ELSE /\ v1ID' = c.key
               /\ v1Found' = TRUE
               /\ errs' = errs
    /\ loadIdx' = loadIdx + 1
    /\ loadPc' = "loop"
    /\ UNCHANGED <<protoConfigs, protocols, loadRet, disp>>
    /\ UNCHANGED <<term, notServer>>

\* LoadProtocols, the rest of the iteration (lines 153-161): the first legacy
\* instance becomes the alias, a later one is reported
LoadAlias ==
    /\ loadPc = "alias"
    /\ LET c == protoConfigs[loadIdx]
       IN IF c.version = VERSION_1
          THEN IF v1Found
               THEN \* (the source spells the target "errrs")
                    /\ errs' = Append(errs, "V1 duplicate protocol found")
                    /\ UNCHANGED <<v1ID, v1Found>>
               ELSE /\ v1ID' = c.key
                    /\ v1Found' = TRUE
                    /\ errs' = errs
          ELSE UNCHANGED <<v1ID, v1Found, errs>>
    /\ loadIdx' = loadIdx + 1
    /\ loadPc' = "loop"
    /\ UNCHANGED <<protoConfigs, protocols, loadRet, disp>>
    /\ UNCHANGED <<term, notServer>>

\* LoadProtocols, after the loop: return nil
LoadReturn ==
    /\ loadPc = "loop"
    /\ loadIdx > Len(protoConfigs)
    /\ loadPc' = "done"
    /\ loadRet' = "nil"
    /\ UNCHANGED <<protoConfigs, loadIdx, protocols, v1ID, v1Found, errs, disp>>
    /\ UNCHANGED <<term, notServer>>

\* s.protocols[id]: the instance under id, 0 when the map has no such key
Lookup(id) == IF id \in Keys THEN protocols[id] ELSE 0

\* A dispatcher that forgets the alias: the identifier is used as it came.
DispatchBeginNoAlias(in) ==
    /\ loadPc # "panicked"
    /\ disp.pc \in {"idle", "done"}
    /\ disp' = [pc |-> "lookup", in |-> in, id |-> in,
                result |-> "none", target |-> 0]
    /\ UNCHANGED <<protoConfigs, loadPc, loadIdx, protocols, v1ID, v1Found,
                   errs, loadRet>>
    /\ UNCHANGED <<term, notServer>>

\* Server.PartialBeacon, up to id := string(in.groupHash). The alias is read
\* before the read lock is taken.
DispatchBegin(in) ==
    /\ loadPc # "panicked"
    /\ disp.pc \in {"idle", "done"}
    /\ IF in = 0
       THEN IF v1ID = 0
            THEN disp' = [pc |-> "done", in |-> in, id |-> 0,
                          result |-> "MissingIdentifier", target |-> 0]
            ELSE disp' = [pc |-> "lookup", in |-> in, id |-> v1ID,
                          result |-> "none", target |-> 0]
       ELSE disp' = [pc |-> "lookup", in |-> in, id |-> in,
                     result |-> "none", target |-> 0]
    /\ UNCHANGED <<protoConfigs, loadPc, loadIdx, protocols, v1ID, v1Found,
                   errs, loadRet>>
    /\ UNCHANGED <<term, notServer>>

\* A lookup that drops the ok of p, ok := s.protocols[id] and hands over to
\* whatever the map returned.
DispatchLookupIgnoresOk ==
    /\ loadPc # "panicked"
    /\ disp.pc = "lookup"
    /\ disp' = [disp EXCEPT !.pc = "done", !.result = "dispatched",
                            !.target = Lookup(disp.id)]
    /\ UNCHANGED <<protoConfigs, loadPc, loadIdx, protocols, v1ID, v1Found,
                   errs, loadRet>>
    /\ UNCHANGED <<term, notServer>>

\* Server.PartialBeacon: p, ok := s.protocols[id] under RLock, then either the
\* error or the hand-over p.PartialBeacon(c, in)
DispatchLookup ==
    /\ loadPc # "panicked"
    /\ disp.pc = "lookup"
    /\ LET p == Lookup(disp.id)
       IN IF p = 0
          THEN disp' = [disp EXCEPT !.pc = "done", !.result = "UnknownNetwork"]
          ELSE disp' = [disp EXCEPT !.pc = "done", !.result = "dispatched",
                                    !.target = p]
    /\ UNCHANGED <<protoConfigs, loadPc, loadIdx, protocols, v1ID, v1Found,
                   errs, loadRet>>
    /\ UNCHANGED <<term, notServer>>

\* terminate(identifier). The Server of src/ has no such method (its Stop is
\* an empty body) and no Protocol implements Terminate; this is the operation
\* as section 4.2 of the specification describes it: under the write lock, the
\* instance is looked up, terminated (loops stopped, persisted data deleted)
\* and removed from the registry.
Terminate(id) ==
    /\ loadPc # "panicked"
    /\ IF Lookup(id) = 0
       THEN /\ term' = [term EXCEPT !.id = id, !.err = "UnknownNetwork",
                                    !.bit = ~@]
            /\ UNCHANGED protocols
       ELSE /\ term' = [ids |-> term.ids \cup {id},
                        insts |-> term.insts \cup {Lookup(id)},
                        id |-> id, err |-> "nil", bit |-> ~term.bit]
            /\ protocols' = [protocols EXCEPT ![id] = 0]
    /\ UNCHANGED <<protoConfigs, loadPc, loadIdx, v1ID, v1Found, errs, loadRet,
                   disp>>
    /\ UNCHANGED notServer

-----------------------------------------------------------------------------
\* v1Protocol: DKG (src/unnamed/part_002, src/core/v1_public.go)

NodeIdx  == 1 .. NumNodes          \* indices of the nodes taking part in a DKG

\* sequences over S without a repeated element
DistinctSeqs(S) ==
    UNION { { q \in [1 .. n -> S] : \A i, j \in 1 .. n : i # j => q[i] # q[j] } :
            n \in 0 .. Cardinality(S) }

Elems(q) == { q[i] : i \in DOMAIN q }

NoGroup == [set |-> FALSE, run |-> 0, nodes |-> <<>>, pubKey |-> 0,
            transitionTime |-> 0]
NoDkg   == [set |-> FALSE, run |-> 0, target |-> NoGroup, started |-> FALSE,
            phaserStarts |-> 0, boardStopped |-> FALSE, consumed |-> FALSE]
NoWait  == [pc |-> "idle", run |-> 0, invited |-> <<>>, qual |-> <<>>,
            err |-> "none", out |-> NoGroup]
NoRet   == [op |-> "none", req |-> 0, err |-> "none", round |-> 0]

\* A Group a previous run left behind, with this node's Share of it.
OldGroup == [set |-> TRUE, run |-> 1, nodes |-> [i \in NodeIdx |-> i],
             pubKey |-> 1, transitionTime |-> 0]

\* The instance before any DKG, or established by run 1 and loaded from disk.
InitInstance ==
    /\ \E established \in BOOLEAN :
         IF established
         THEN /\ group = OldGroup
              /\ share = 1
              /\ kstore = [share |-> 1, group |-> OldGroup]
              /\ runs = 0
         ELSE /\ group = NoGroup
              /\ share = 0
              /\ kstore = [share |-> 0, group |-> NoGroup]
              /\ runs = 0
    /\ dkgInfo = NoDkg
    /\ wait = NoWait
    /\ state = "free"

\* ... with no setup phase going on
InitDkgVars == InitInstance /\ manager = 0 /\ receiver = 0

\* A DKG or resharing session is set up for a target Group (the control plane
\* does this; it is not part of the files modelled here).
InitDKG(nodes) ==
    /\ wait.pc \in {"idle", "done"}
    /\ runs < MaxRuns
    /\ nodes # <<>>
    /\ runs' = runs + 1
    /\ dkgInfo' = [NoDkg EXCEPT !.set = TRUE, !.run = runs + 2,
                                !.target = [NoGroup EXCEPT !.set = TRUE,
                                                           !.run = runs + 2,
                                                           !.nodes = nodes]]
    /\ UNCHANGED <<group, share, kstore, wait, state>>
    /\ UNCHANGED <<manager, receiver, notDkg, rpcVars>>

\* A BroadcastDKG that starts the phased timer at every packet.
BroadcastDKGRestarts(boardOk) ==
    /\ state = "free"
    /\ IF ~dkgInfo.set
       THEN /\ ret' = [NoRet EXCEPT !.op = "BroadcastDKG",
                                    !.err = "drand: no dkg running"]
            /\ UNCHANGED dkgInfo
       ELSE /\ dkgInfo' = [dkgInfo EXCEPT !.started = TRUE,
                                          !.phaserStarts = @ + 1]
            /\ ret' = [NoRet EXCEPT !.op = "BroadcastDKG",
                                    !.err = IF boardOk THEN "nil" ELSE "board"]
    /\ callBit' = ~callBit
    /\ UNCHANGED <<group, share, kstore, wait, runs, manager, receiver, state>>
    /\ UNCHANGED notDkg

\* BroadcastDKG: the whole handler runs under v1.state
BroadcastDKG(boardOk) ==
    /\ state = "free"
    /\ IF ~dkgInfo.set
       THEN /\ ret' = [NoRet EXCEPT !.op = "BroadcastDKG",
                                    !.err = "drand: no dkg running"]
            /\ UNCHANGED dkgInfo
       ELSE /\ dkgInfo' = IF ~dkgInfo.started
                          THEN [dkgInfo EXCEPT !.started = TRUE,
                                               !.phaserStarts = @ + 1]
                          ELSE dkgInfo
            /\ ret' = [NoRet EXCEPT !.op = "BroadcastDKG",
                                    !.err = IF boardOk THEN "nil" ELSE "board"]
    /\ callBit' = ~callBit
    /\ UNCHANGED <<group, share, kstore, wait, runs, manager, receiver, state>>
    /\ UNCHANGED notDkg

\* A SignalDKGParticipant that hands the packet to the manager unchecked.
SignalDKGParticipantNoCheck(ok) ==
    /\ state = "free"
    /\ manager' = IF ok /\ manager <= NumNodes THEN manager + 1 ELSE manager
    /\ ret' = [NoRet EXCEPT !.op = "SignalDKGParticipant",
                            !.err = IF ok THEN "nil" ELSE "ReceivedKey"]
    /\ callBit' = ~callBit
    /\ UNCHANGED <<group, share, dkgInfo, kstore, wait, runs, receiver, state>>
    /\ UNCHANGED notDkg

\* SignalDKGParticipant, under v1.state: the manager check, then
\* manager.ReceivedKey(addr, p), which keeps the key or refuses it
SignalDKGParticipant(ok) ==
    /\ state = "free"
    /\ IF manager = 0
       THEN /\ ret' = [NoRet EXCEPT !.op = "SignalDKGParticipant",
                                    !.err = "no manager"]
            /\ UNCHANGED manager
       ELSE /\ manager' = IF ok /\ manager <= NumNodes
                          THEN manager + 1 ELSE manager
            /\ ret' = [NoRet EXCEPT !.op = "SignalDKGParticipant",
                                    !.err = IF ok THEN "nil" ELSE "ReceivedKey"]
    /\ callBit' = ~callBit
    /\ UNCHANGED <<group, share, dkgInfo, kstore, wait, runs, receiver, state>>
    /\ UNCHANGED notDkg

\* PushDKGInfo, under v1.state: the receiver check, then
\* receiver.PushDKGInfo(in)
PushDKGInfo(ok) ==
    /\ state = "free"
    /\ IF receiver = 0
       THEN /\ ret' = [NoRet EXCEPT !.op = "PushDKGInfo",
                                    !.err = "no receiver setup"]
            /\ UNCHANGED receiver
       ELSE /\ receiver' = IF ok THEN 2 ELSE receiver
            /\ ret' = [NoRet EXCEPT !.op = "PushDKGInfo",
                                    !.err = IF ok THEN "nil" ELSE "PushDKGInfo"]
    /\ callBit' = ~callBit
    /\ UNCHANGED <<group, share, dkgInfo, kstore, wait, runs, manager, state>>
    /\ UNCHANGED notDkg

\* WaitDKG lines 154-161: the nested loops that keep the qualified nodes
RECURSIVE QualInner(_, _, _)
QualInner(node, qual, acc) ==
    IF qual = <<>> THEN acc
    ELSE QualInner(node, Tail(qual),
                   IF Head(qual) = node THEN Append(acc, node) ELSE acc)

RECURSIVE QualOuter(_, _, _)
QualOuter(nodes, qual, acc) ==
    IF nodes = <<>> THEN acc
    ELSE QualOuter(Tail(nodes), qual, QualInner(Head(nodes), qual, acc))

\* A filter that keeps every invited node.
qualNodesKeepAll(nodes, qual) == nodes

qualNodes(nodes, qual) == QualOuter(nodes, qual, <<>>)

\* A WaitDKG that goes to wait on the channel with v1.state still locked.
WaitBeginKeepsLock ==
    /\ wait.pc \in {"idle", "done"}
    /\ state = "free"
    /\ IF ~dkgInfo.set
       THEN /\ wait' = [NoWait EXCEPT !.pc = "done", !.err = "no dkg info set"]
            /\ state' = "free"
       ELSE /\ wait' = [NoWait EXCEPT !.pc = "waiting", !.run = dkgInfo.run,
                                      !.invited = dkgInfo.target.nodes]
            /\ state' = "WaitDKG"
    /\ UNCHANGED <<group, share, dkgInfo, kstore, runs>>
    /\ UNCHANGED <<manager, receiver, notDkg, rpcVars>>

\* WaitDKG lines 137-143: Lock, the session check, WaitEnd(), and Unlock on
\* both paths (line 139 and line 143)
WaitBegin ==
    /\ wait.pc \in {"idle", "done"}
    /\ state = "free"
    /\ IF ~dkgInfo.set
       THEN wait' = [NoWait EXCEPT !.pc = "done", !.err = "no dkg info set"]
       ELSE wait' = [NoWait EXCEPT !.pc = "waiting", !.run = dkgInfo.run,
                                   !.invited = dkgInfo.target.nodes]
    /\ state' = "free"
    /\ UNCHANGED <<group, share, dkgInfo, kstore, runs>>
    /\ UNCHANGED <<manager, receiver, notDkg, rpcVars>>

\* WaitDKG lines 146-149: res := <-waitCh. The channel carries one result per
\* session; an error result is returned at once, without the lock.
WaitRecv(ok, qual) ==
    /\ wait.pc = "waiting"
    /\ dkgInfo.set /\ dkgInfo.run = wait.run /\ ~dkgInfo.consumed
    /\ dkgInfo' = [dkgInfo EXCEPT !.consumed = TRUE]
    /\ IF ok
       THEN wait' = [wait EXCEPT !.pc = "received", !.qual = qual]
       ELSE wait' = [wait EXCEPT !.pc = "done", !.err = "drand: error from dkg"]
    /\ UNCHANGED <<group, share, kstore, runs, state>>
    /\ UNCHANGED <<manager, receiver, notDkg, rpcVars>>

\* WaitDKG line 151: v1.state.Lock(), taken again once the result is in
WaitRelock ==
    /\ wait.pc = "received"
    /\ state = "free"
    /\ state' = "WaitDKG"
    /\ wait' = [wait EXCEPT !.pc = "consume"]
    /\ UNCHANGED <<group, share, dkgInfo, kstore, runs>>
    /\ UNCHANGED <<manager, receiver, notDkg, rpcVars>>

\* WaitDKG lines 152-185, under the lock: filter, SaveShare, SaveGroup,
\* discard, and the deferred Unlock
WaitFinish(saveShareOk, saveGroupOk) ==
    /\ wait.pc = "consume"
    /\ state = "WaitDKG"
    /\ state' = "free"
    /\ LET qn == qualNodes(dkgInfo.target.nodes, wait.qual)
           targetGroup == [dkgInfo.target EXCEPT !.nodes = qn,
                                                 !.pubKey = wait.run]
       IN /\ share' = wait.run
          /\ IF ~saveShareOk
             THEN /\ wait' = [wait EXCEPT !.pc = "done", !.err = "SaveShare"]
                  /\ UNCHANGED <<group, dkgInfo, kstore>>
             ELSE IF ~saveGroupOk
             THEN /\ group' = targetGroup
                  /\ dkgInfo' = [dkgInfo EXCEPT !.target = targetGroup]
                  /\ kstore' = [kstore EXCEPT !.share = wait.run]
                  /\ wait' = [wait EXCEPT !.pc = "done", !.err = "SaveGroup"]
             ELSE /\ group' = targetGroup
                  /\ dkgInfo' = NoDkg
                  /\ kstore' = [share |-> wait.run, group |-> targetGroup]
                  /\ wait' = [wait EXCEPT !.pc = "done", !.err = "nil",
                                          !.out = targetGroup]
    /\ UNCHANGED runs
    /\ UNCHANGED <<manager, receiver, notDkg, rpcVars>>

-----------------------------------------------------------------------------
\* The v1 constructors (src/unnamed/part_002, lines 93-131)

\* new(v1Protocol): every field at its zero value; NilV1 is the nil Protocol
NewV1 == [present |-> TRUE, group |-> NoGroup, share |-> 0, dkgDone |-> FALSE,
          dkgInfo |-> NoDkg, beacon |-> 0]
NilV1 == [NewV1 EXCEPT !.present = FALSE]

NoLoaded == [called |-> FALSE, keyOk |-> FALSE, sigOk |-> FALSE,
             groupOk |-> FALSE, out |-> [inst |-> NilV1, err |-> "none",
                                         warned |-> FALSE]]

\* An initV1 that refuses a key pair whose self-signature is invalid.
initV1StrictSig(keyOk, sigOk) ==
    IF ~keyOk \/ ~sigOk
    THEN [inst |-> NilV1, err |-> "LoadKeyPair", warned |-> FALSE]
    ELSE [inst |-> NewV1, err |-> "nil", warned |-> FALSE]

\* initV1: LoadKeyPair, the self-signature check that only logs, new(v1Protocol)
initV1(keyOk, sigOk) ==
    IF ~keyOk
    THEN [inst |-> NilV1, err |-> "LoadKeyPair", warned |-> FALSE]
    ELSE [inst |-> NewV1, err |-> "nil", warned |-> ~sigOk]

\* loadV1Protocol: initV1, v1.group = store.LoadGroup(), v1.dkgDone = true
loadV1Protocol(st, keyOk, sigOk, groupOk) ==
    LET r == initV1(keyOk, sigOk)
    IN IF r.err # "nil"
       THEN [inst |-> NilV1, err |-> "Err loading V1: ", warned |-> r.warned]
       ELSE IF ~groupOk
       THEN [inst |-> NilV1, err |-> "LoadGroup", warned |-> r.warned]
       ELSE [inst |-> [r.inst EXCEPT !.group = st.group, !.dkgDone = TRUE],
             err |-> "nil", warned |-> r.warned]

\* a call of the load constructor on the folder of this instance; LoadGroup
\* can only succeed on a stored Group
LoadV1(keyOk, sigOk, groupOk) ==
    /\ groupOk => kstore.group.set
    /\ loaded' = [called |-> TRUE, keyOk |-> keyOk, sigOk |-> sigOk,
                  groupOk |-> groupOk,
                  out |-> loadV1Protocol(kstore, keyOk, sigOk, groupOk)]
    /\ UNCHANGED <<factoryOf, regFirst, denied, got>>
    /\ UNCHANGED notFactory

-----------------------------------------------------------------------------
\* Beacon generator and chain store. chain/beacon is not among the files
\* modelled; a generator is what the handlers see of it: it runs or not, how
\* often Stop was called on it, and the stream callbacks registered on it.

Handles == 1 .. MaxHandles
Addrs   == 1 .. NumSubs            \* net.RemoteAddress of the streams' callers

NoGen == [created |-> FALSE, running |-> FALSE, stops |-> 0, callbacks |-> {},
          lateParts |-> 0,
          under |-> "old", stopAt |-> -1, switchAt |-> -1, startAt |-> 0]

NoSub == [pc |-> "idle", req |-> 0, b |-> 0, lastb |-> 0, pos |-> 0,
          replayed |-> FALSE, sent |-> <<>>, done |-> "empty",
          cbBlocked |-> FALSE, err |-> "none", ctx |-> "live"]
NoSubs == [a \in Addrs |-> NoSub]
NoPb  == [pc |-> "idle", inst |-> 0]

\* Store().Last(): the last stored round, 0 when the store is empty
Last(ch) == IF ch = <<>> THEN 0 ELSE ch[Len(ch)]

\* Store().Get(r): the stored round numbered r, 0 when there is none
Get(ch, r) == IF \E i \in DOMAIN ch : ch[i] = r THEN r ELSE 0

\* newBeacon: a fresh handle bound to the current Group and Share, installed
\* as v1.beacon
newBeacon(h, under) == [gens EXCEPT ![h] = [NoGen EXCEPT !.created = TRUE,
                                                          !.under = under]]

FreeHandles == { h \in Handles : ~gens[h].created }
NextHandle  == CHOOSE h \in FreeHandles : \A k \in FreeHandles : h <= k

\* StartBeacon(catchup): newBeacon, then go b.Catchup() or b.Start()
StartBeacon(catchup, newOk, startOk) ==
    /\ ~crashed
    /\ IF ~newOk
       THEN \* v1.log.Error("init_beacon", err); return
            UNCHANGED <<beacon, gens>>
       ELSE /\ FreeHandles # {}
            /\ LET h == NextHandle
               IN /\ beacon' = h
                  /\ gens' = [newBeacon(h, "old") EXCEPT
                                ![h].running = catchup \/ startOk]
    /\ ret' = [NoRet EXCEPT !.op = "StartBeacon", !.err = "nil"]
    /\ callBit' = ~callBit
    /\ UNCHANGED <<chain, sub, pb, crashed>>
    /\ UNCHANGED notBeacon

\* A StopBeacon that forgets v1.beacon = nil.
StopBeaconKeepsHandle ==
    /\ ~crashed
    /\ state = "free"
    /\ IF beacon = 0
       THEN UNCHANGED gens
       ELSE gens' = [gens EXCEPT ![beacon].running = FALSE,
                                 ![beacon].stops = @ + 1]
    /\ beacon' = beacon
    /\ ret' = [NoRet EXCEPT !.op = "StopBeacon", !.err = "nil", !.req = beacon]
    /\ callBit' = ~callBit
    /\ UNCHANGED <<chain, sub, pb, crashed>>
    /\ UNCHANGED notBeacon

\* StopBeacon, under v1.state
StopBeacon ==
    /\ ~crashed
    /\ state = "free"
    /\ IF beacon = 0
       THEN UNCHANGED <<beacon, gens>>
       ELSE /\ gens' = [gens EXCEPT ![beacon].running = FALSE,
                                    ![beacon].stops = @ + 1]
            /\ beacon' = 0
    /\ ret' = [NoRet EXCEPT !.op = "StopBeacon", !.err = "nil", !.req = beacon]
    /\ callBit' = ~callBit
    /\ UNCHANGED <<chain, sub, pb, crashed>>
    /\ UNCHANGED notBeacon

\* The stream callbacks of PublicRandStream (lines 106-118), run by a
\* generator for round r on the addresses cbs registered on it; F are those
\* whose Send fails: d.beacon.RemoveCallback(addr); done <- err
CallbackGens(gs, F) ==
    IF F = {} \/ beacon = 0 THEN gs
    ELSE [gs EXCEPT ![beacon].callbacks = @ \ F]

CallbackSub(r, cbs, F) ==
    [a \in Addrs |->
        IF a \notin cbs THEN sub[a]
        ELSE IF a \notin F THEN [sub[a] EXCEPT !.sent = Append(@, r)]
        ELSE IF beacon = 0 THEN sub[a]
        ELSE IF sub[a].done = "empty" THEN [sub[a] EXCEPT !.done = "err"]
        ELSE [sub[a] EXCEPT !.cbBlocked = TRUE]]

\* Generator g completes the next round: it is appended to the store and
\* pushed to the callbacks registered on g. A Send on a stream whose context
\* ended fails.
Produce(g, fails) ==
    /\ ~crashed
    /\ gens[g].running
    /\ Len(chain) < MaxRound
    /\ fails \subseteq gens[g].callbacks
    /\ \A a \in gens[g].callbacks : sub[a].ctx = "ended" => a \in fails
    /\ LET r == Last(chain) + 1
       IN /\ chain' = Append(chain, r)
          /\ gens' = CallbackGens(gens, fails)
          /\ sub' = CallbackSub(r, gens[g].callbacks, fails)
          /\ crashed' = (fails # {} /\ beacon = 0)
    /\ UNCHANGED <<beacon, pb>>
    /\ UNCHANGED <<notBeacon, rpcVars>>

\* v1Protocol.PartialBeacon, lines 37-43: the check under the lock
PartialBeaconCheck ==
    /\ ~crashed
    /\ state = "free"
    /\ pb.pc = "idle"
    /\ IF beacon = 0
       THEN /\ ret' = [NoRet EXCEPT !.op = "PartialBeacon",
                                    !.err = "drand: beacon not setup yet"]
            /\ callBit' = ~callBit
            /\ UNCHANGED pb
       ELSE /\ pb' = [pc |-> "process", inst |-> beacon]
            /\ UNCHANGED rpcVars
    /\ UNCHANGED <<beacon, gens, chain, sub, crashed>>
    /\ UNCHANGED notBeacon

\* v1Protocol.PartialBeacon, line 44: inst.ProcessPartialBeacon, lock released
PartialBeaconProcess(ok) ==
    /\ ~crashed
    /\ pb.pc = "process"
    /\ gens' = [gens EXCEPT ![pb.inst].lateParts =
                                IF gens[pb.inst].running THEN @ ELSE 1]
    /\ pb' = NoPb
    /\ ret' = [NoRet EXCEPT !.op = "PartialBeacon", !.req = pb.inst,
                            !.err = IF ok THEN "nil" ELSE "process"]
    /\ callBit' = ~callBit
    /\ UNCHANGED <<beacon, chain, sub, crashed>>
    /\ UNCHANGED notBeacon

\* A PublicRand that falls back on the latest round when r is not stored.
PublicRandReplyNeighbour(r) ==
    IF beacon = 0
    THEN [NoRet EXCEPT !.op = "PublicRand", !.req = r,
                       !.err = "drand: beacon generation not started yet"]
    ELSE LET b == IF r = 0 \/ Get(chain, r) = 0 THEN Last(chain) ELSE Get(chain, r)
         IN IF b = 0
            THEN [NoRet EXCEPT !.op = "PublicRand", !.req = r,
                               !.err = "can't retrieve beacon"]
            ELSE [NoRet EXCEPT !.op = "PublicRand", !.req = r,
                               !.err = "nil", !.round = b]

\* PublicRand lines 53-69: what is replied for round r
PublicRandReply(r) ==
    IF beacon = 0
    THEN [NoRet EXCEPT !.op = "PublicRand", !.req = r,
                       !.err = "drand: beacon generation not started yet"]
    ELSE LET b == IF r = 0 THEN Last(chain) ELSE Get(chain, r)
         IN IF b = 0
            THEN [NoRet EXCEPT !.op = "PublicRand", !.req = r,
                               !.err = "can't retrieve beacon"]
            ELSE [NoRet EXCEPT !.op = "PublicRand", !.req = r,
                               !.err = "nil", !.round = b]

\* PublicRand, under v1.state
PublicRand(r) ==
    /\ ~crashed
    /\ state = "free"
    /\ ret' = PublicRandReply(r)
    /\ callBit' = ~callBit
    /\ UNCHANGED beaconVars
    /\ UNCHANGED notBeacon

\* SyncChain: b := d.beacon under the lock; b.SyncChain if b != nil, else nil
SyncChain(req, ok) ==
    /\ ~crashed
    /\ state = "free"
    /\ ret' = [NoRet EXCEPT !.op = "SyncChain",
                            !.err = IF beacon # 0 /\ ~ok THEN "sync" ELSE "nil"]
    /\ callBit' = ~callBit
    /\ UNCHANGED beaconVars
    /\ UNCHANGED notBeacon

\* ChainInfo, under v1.state: the chain information of the Group, if any
ChainInfo ==
    /\ ~crashed
    /\ state = "free"
    /\ ret' = [NoRet EXCEPT !.op = "ChainInfo",
                            !.err = IF group.set THEN "nil"
                                    ELSE "drand: no dkg group setup yet"]
    /\ callBit' = ~callBit
    /\ UNCHANGED beaconVars
    /\ UNCHANGED notBeacon

\* Cursor.Seek(r): position of the first stored round >= r (past the end when
\* there is none)
Seek(ch, r) ==
    IF \E i \in DOMAIN ch : ch[i] >= r
    THEN CHOOSE i \in DOMAIN ch : ch[i] >= r /\ \A j \in DOMAIN ch : ch[j] >= r => i <= j
    ELSE Len(ch) + 1

\* PublicRandStream lines 75-81: the check under the lock, b = d.beacon
StreamCheck(a, req) ==
    /\ ~crashed
    /\ state = "free"
    /\ sub[a].pc = "idle"
    /\ IF beacon = 0
       THEN sub' = [sub EXCEPT ![a].pc = "done", ![a].req = req,
                               ![a].err = "beacon has not started on this node yet"]
       ELSE sub' = [sub EXCEPT ![a].pc = "last", ![a].req = req, ![a].b = beacon]
    /\ UNCHANGED <<beacon, gens, chain, pb, crashed>>
    /\ UNCHANGED <<notBeacon, rpcVars>>

\* PublicRandStream lines 82-89: lastb, err := b.Store().Last() and the choice
\* between replaying from the store and going live at once
StreamLast(a) ==
    /\ ~crashed
    /\ sub[a].pc = "last"
    /\ IF chain = <<>>
       THEN sub' = [sub EXCEPT ![a].pc = "done", ![a].err = "store"]
       ELSE IF sub[a].req # 0 /\ sub[a].req <= Last(chain)
       THEN sub' = [sub EXCEPT ![a].pc = "replay", ![a].lastb = Last(chain),
                               ![a].replayed = TRUE,
                               ![a].pos = Seek(chain, sub[a].req)]
       ELSE sub' = [sub EXCEPT ![a].pc = "register", ![a].lastb = Last(chain)]
    /\ UNCHANGED <<beacon, gens, chain, pb, crashed>>
    /\ UNCHANGED <<notBeacon, rpcVars>>

\* PublicRandStream lines 92-102: one turn of the cursor loop
StreamReplay(a, sendOk) ==
    /\ ~crashed
    /\ sub[a].pc = "replay"
    /\ sub[a].ctx = "ended" => ~sendOk
    /\ IF sub[a].pos > Len(chain)
       THEN sub' = [sub EXCEPT ![a].pc = "register"]
       ELSE IF sendOk
       THEN sub' = [sub EXCEPT ![a].sent = Append(@, chain[sub[a].pos]),
                               ![a].pos = @ + 1]
       ELSE sub' = [sub EXCEPT ![a].pc = "done", ![a].err = "send"]
    /\ UNCHANGED <<beacon, gens, chain, pb, crashed>>
    /\ UNCHANGED <<notBeacon, rpcVars>>

\* PublicRandStream line 106: d.beacon.AddCallback(addr, ...), outside the
\* lock and on d.beacon, not on the b captured under it
StreamRegister(a) ==
    /\ ~crashed
    /\ sub[a].pc = "register"
    /\ IF beacon = 0
       THEN /\ crashed' = TRUE
            /\ UNCHANGED <<gens, sub>>
       ELSE /\ gens' = [gens EXCEPT ![beacon].callbacks = @ \cup {a}]
            /\ sub' = [sub EXCEPT ![a].pc = "wait"]
            /\ UNCHANGED crashed
    /\ UNCHANGED <<beacon, chain, pb>>
    /\ UNCHANGED <<notBeacon, rpcVars>>

\* PublicRandStream line 119: return <-done
StreamReturn(a) ==
    /\ ~crashed
    /\ sub[a].pc = "wait"
    /\ sub[a].done = "err"
    /\ sub' = [sub EXCEPT ![a].pc = "done", ![a].err = "send",
                          ![a].done = "empty"]
    /\ UNCHANGED <<beacon, gens, chain, pb, crashed>>
    /\ UNCHANGED <<notBeacon, rpcVars>>

\* The context of the stream of caller a ends (the caller went away or
\* cancelled) while the call runs. No line of PublicRandStream reads
\* stream.Context() but to take the address from it.
CtxEnd(a) ==
    /\ ~crashed
    /\ sub[a].pc \notin {"idle", "done"}
    /\ sub[a].ctx = "live"
    /\ sub' = [sub EXCEPT ![a].ctx = "ended"]
    /\ UNCHANGED <<beacon, gens, chain, pb, crashed>>
    /\ UNCHANGED <<notBeacon, rpcVars>>

-----------------------------------------------------------------------------
\* Resharing transition (src/unnamed/part_002, lines 213-247)

NoTr == [pc |-> "idle", oldPresent |-> FALSE, newPresent |-> FALSE, at |-> -1,
         err |-> "none"]

\* A stop time that forgets the "- 1".
timeToStopAtT(g) == g.transitionTime

\* A stop time one round too early.
timeToStopTwoBefore(g) == g.transitionTime - 2

\* line 218: timeToStop := v1.group.TransitionTime - 1
timeToStop(g) == g.transitionTime - 1

\* Handler.StopAt(t): schedules the stop, or fails when t is not in the future
StopAt(h, t) ==
    IF t <= now THEN gens ELSE [gens EXCEPT ![h].stopAt = t]

\* Handler.TransitionNewGroup(share, group): the running generator switches to
\* the new Share and Group at the Group's transition time
TransitionNewGroup(h, g) == [gens EXCEPT ![h].switchAt = g.transitionTime]

\* Handler.Transition(oldGroup): the fresh generator syncs the old chain and
\* starts producing at the new Group's transition time
TransitionSync(gs, h, g) == [gs EXCEPT ![h].running = TRUE,
                                       ![h].startAt = g.transitionTime]

\* transition(oldGroup, oldPresent, newPresent)
Transition(oldPresent, newPresent, newOk, syncOk) ==
    /\ ~crashed
    /\ tr.pc = "idle"
    /\ tr.oldPresent = oldPresent /\ tr.newPresent = newPresent
    /\ IF ~newPresent
       THEN \* an old node is leaving the network
            IF beacon = 0
            THEN /\ crashed' = TRUE
                 /\ UNCHANGED <<beacon, gens, tr>>
            ELSE /\ gens' = StopAt(beacon, timeToStop(group))
                 /\ tr' = [tr EXCEPT !.pc = "done", !.at = now,
                                     !.err = IF timeToStop(group) <= now
                                             THEN "leaving_group" ELSE "nil"]
                 /\ UNCHANGED <<beacon, crashed>>
       ELSE IF oldPresent
       THEN IF beacon = 0
            THEN /\ crashed' = TRUE
                 /\ UNCHANGED <<beacon, gens, tr>>
            ELSE /\ gens' = TransitionNewGroup(beacon, group)
                 /\ tr' = [tr EXCEPT !.pc = "done", !.at = now, !.err = "nil"]
                 /\ UNCHANGED <<beacon, crashed>>
       ELSE IF ~newOk
       THEN \* v1.log.Fatal: the process exits
            /\ crashed' = TRUE
            /\ UNCHANGED <<beacon, gens, tr>>
       ELSE /\ FreeHandles # {}
            /\ LET h == NextHandle
               IN /\ beacon' = h
                  /\ gens' = IF syncOk
                             THEN TransitionSync(newBeacon(h, "new"), h, group)
                             ELSE newBeacon(h, "new")
            /\ tr' = [tr EXCEPT !.pc = "done", !.at = now,
                                !.err = IF syncOk THEN "nil" ELSE "sync_before"]
            /\ UNCHANGED crashed
    /\ UNCHANGED <<chain, sub, pb, now, produced>>
    /\ UNCHANGED <<factoryVars, serverVars, dkgVars, rpcVars>>

\* The Group generator h signs the round of time t under
Under(h, t) ==
    IF gens[h].switchAt # -1 /\ t >= gens[h].switchAt THEN "new"
    ELSE gens[h].under

\* Generator h is due to produce the round of time t. At t = stopAt the round
\* and the stop race (atStop tells whether the round wins).
Due(h, t, atStop) ==
    /\ gens[h].running
    /\ t >= gens[h].startAt
    /\ \/ gens[h].stopAt = -1
       \/ t < gens[h].stopAt
       \/ t = gens[h].stopAt /\ atStop

\* The clock reaches the next round time: the running generators produce its
\* round (when the threshold of partials is met) and a scheduled stop fires.
Tick(quorum, atStop) ==
    /\ ~crashed
    /\ now < MaxTime
    /\ now' = now + 1
    /\ produced' = produced \cup
         { [time |-> now + 1, under |-> Under(h, now + 1)] :
             h \in { k \in Handles : quorum /\ Due(k, now + 1, atStop) } }
    /\ gens' = [h \in Handles |->
                  IF gens[h].running /\ gens[h].stopAt # -1
                                     /\ now + 1 >= gens[h].stopAt
                  THEN [gens[h] EXCEPT !.running = FALSE, !.stops = @ + 1]
                  ELSE gens[h]]
    /\ UNCHANGED <<beacon, chain, sub, pb, crashed, tr>>
    /\ UNCHANGED <<factoryVars, serverVars, dkgVars, rpcVars>>

-----------------------------------------------------------------------------
\* Specifications

IdleServer ==
    /\ protoConfigs = <<>>
    /\ loadPc = "idle" /\ loadIdx = 0
    /\ protocols = [k \in Keys |-> 0]
    /\ v1ID = 0 /\ v1Found = FALSE
    /\ errs = <<>> /\ loadRet = "none"
    /\ disp = NoDispatch
    /\ term = NoTerm

IdleDkg ==
    /\ group = OldGroup /\ share = 1
    /\ kstore = [share |-> 1, group |-> OldGroup]
    /\ runs = 0
    /\ dkgInfo = NoDkg /\ wait = NoWait
    /\ manager = 0 /\ receiver = 0
    /\ state = "free"

IdleBeacon ==
    /\ beacon = 0
    /\ gens = [h \in Handles |-> NoGen]
    /\ chain = <<>>
    /\ sub = NoSubs /\ pb = NoPb
    /\ crashed = FALSE

IdleFactory ==
    /\ factoryOf = factories /\ regFirst = factories
    /\ denied = blacklist
    /\ got = NoGot /\ loaded = NoLoaded

IdleRpc   == ret = NoRet /\ callBit = FALSE
IdleTrans == now = 0 /\ tr = NoTr /\ produced = {}

\* ---- the dispatch server at start-up, serving while it loads
InitServer ==
    /\ InitServerVars
    /\ group = NoGroup /\ share = 0
    /\ kstore = [share |-> 0, group |-> NoGroup]
    /\ runs = 0 /\ dkgInfo = NoDkg /\ wait = NoWait /\ state = "free"
    /\ manager = 0 /\ receiver = 0
    /\ IdleBeacon /\ IdleRpc /\ IdleTrans /\ IdleFactory

NextServer ==
    \/ LoadBegin
    \/ LoadStep
    \/ LoadAlias
    \/ LoadReturn
    \/ \E in \in 0 .. NumKeys : DispatchBegin(in)
    \/ DispatchLookup

SpecServer == InitServer /\ [][NextServer]_vars

\* ---- the dispatch server with networks being terminated (a folder that
\* fails to load registers nothing, so every folder here loads)
InitTerm ==
    /\ InitServer
    /\ \A i \in DOMAIN protoConfigs : protoConfigs[i].loadOk

NextTerm ==
    \/ LoadBegin
    \/ LoadStep
    \/ LoadAlias
    \/ LoadReturn
    \/ \E in \in 0 .. NumKeys : DispatchBegin(in)
    \/ DispatchLookup
    \/ \E id \in 0 .. NumKeys : Terminate(id)

SpecTerm == InitTerm /\ [][NextTerm]_vars

\* ---- the package-level registry being filled and asked, and the load
\* constructor. The blacklist is a hard-coded list, empty in this revision;
\* getProtocolFactory is run against every content it may be given.
InitFactory ==
    /\ factoryOf = NoFactory /\ regFirst = NoFactory
    /\ denied \in SUBSET Versions
    /\ got = NoGot /\ loaded = NoLoaded
    /\ IdleServer /\ InitDkgVars /\ IdleBeacon /\ IdleRpc /\ IdleTrans

NextFactory ==
    \/ \E v \in Versions, f \in Factories : Register(v, f)
    \/ \E v \in Versions : GetFactory(v)
    \/ \E keyOk, sigOk, groupOk \in BOOLEAN : LoadV1(keyOk, sigOk, groupOk)

SpecFactory == InitFactory /\ [][NextFactory]_vars

\* ---- one instance running DKG and resharing sessions
InitDkg ==
    /\ IdleServer /\ InitDkgVars /\ IdleBeacon /\ IdleRpc /\ IdleTrans
    /\ IdleFactory

NextDkg ==
    \/ \E nodes \in DistinctSeqs(NodeIdx) : InitDKG(nodes)
    \/ \E boardOk \in BOOLEAN : BroadcastDKG(boardOk)
    \/ WaitBegin
    \/ \E ok \in BOOLEAN, qual \in DistinctSeqs(NodeIdx) : WaitRecv(ok, qual)
    \/ WaitRelock
    \/ \E saveShareOk, saveGroupOk \in BOOLEAN : WaitFinish(saveShareOk, saveGroupOk)

SpecDkg == InitDkg /\ [][NextDkg]_vars

\* ---- WaitDKG next to the RPCs that take the same lock v1.state
InitWait ==
    /\ IdleServer /\ IdleBeacon /\ IdleRpc /\ IdleTrans /\ IdleFactory
    /\ InitInstance
    /\ manager = 1 /\ receiver = 0

NextWait ==
    \/ InitDKG([i \in 1 .. NumNodes |-> i])
    \/ WaitBegin
    \/ \E ok \in BOOLEAN : WaitRecv(ok, dkgInfo.target.nodes)
    \/ WaitRelock
    \/ \E saveShareOk, saveGroupOk \in BOOLEAN : WaitFinish(saveShareOk, saveGroupOk)
    \/ \E boardOk \in BOOLEAN : BroadcastDKG(boardOk)
    \/ \E ok \in BOOLEAN : SignalDKGParticipant(ok)
    \/ PublicRand(0)
    \/ ChainInfo

SpecWait == InitWait /\ [][NextWait]_vars

\* ---- the DKG RPCs on an instance in or out of a setup phase (the control
\* plane creates the manager of a leader and the receiver of a follower)
InitSetup ==
    /\ IdleServer /\ IdleBeacon /\ IdleRpc /\ IdleTrans /\ IdleFactory
    /\ InitInstance
    /\ manager \in 0 .. 1 /\ receiver \in 0 .. 1

NextSetup ==
    \/ \E nodes \in DistinctSeqs(NodeIdx) : InitDKG(nodes)
    \/ \E boardOk \in BOOLEAN : BroadcastDKG(boardOk)
    \/ WaitBegin
    \/ \E ok \in BOOLEAN : SignalDKGParticipant(ok)
    \/ \E ok \in BOOLEAN : PushDKGInfo(ok)

SpecSetup == InitSetup /\ [][NextSetup]_vars

\* ---- one established instance serving beacon RPCs
InitBeacon ==
    /\ IdleServer /\ IdleDkg /\ IdleRpc /\ IdleTrans /\ IdleFactory
    /\ beacon = 0
    /\ gens = [h \in Handles |-> NoGen]
    /\ \E n \in 0 .. InitRounds : chain = [i \in 1 .. n |-> i]
    /\ sub = NoSubs /\ pb = NoPb
    /\ crashed = FALSE

NextBeacon ==
    \/ \E catchup, newOk, startOk \in BOOLEAN : StartBeacon(catchup, newOk, startOk)
    \/ StopBeacon
    \/ \E g \in Handles : Produce(g, {})       \* no callback is registered here
    \/ PartialBeaconCheck
    \/ \E ok \in BOOLEAN : PartialBeaconProcess(ok)
    \/ \E r \in 0 .. MaxRound + 1 : PublicRand(r)
    \/ \E ok \in BOOLEAN : SyncChain(0, ok)
    \/ StreamCheck(1, 0)

SpecBeacon == InitBeacon /\ [][NextBeacon]_vars

\* ---- a stream subscription against one running generator
InitStream ==
    /\ IdleServer /\ IdleDkg /\ IdleRpc /\ IdleTrans /\ IdleFactory
    /\ beacon = 1
    /\ gens = [h \in Handles |->
                 IF h = 1 THEN [NoGen EXCEPT !.created = TRUE, !.running = TRUE]
                 ELSE NoGen]
    /\ \E n \in 0 .. InitRounds : chain = [i \in 1 .. n |-> i]
    /\ sub = NoSubs /\ pb = NoPb
    /\ crashed = FALSE

NextStream ==
    \/ \E a \in Addrs, req \in 0 .. MaxRound : StreamCheck(a, req)
    \/ \E a \in Addrs : StreamLast(a)
    \/ \E a \in Addrs, sendOk \in BOOLEAN : StreamReplay(a, sendOk)
    \/ \E a \in Addrs : StreamRegister(a)
    \/ \E a \in Addrs : StreamReturn(a)
    \/ \E a \in Addrs : CtxEnd(a)
    \/ \E g \in Handles, fails \in SUBSET Addrs : Produce(g, fails)

SpecStream == InitStream /\ [][NextStream]_vars

\* ---- live streams (round 0) on an instance whose generator is started and
\* stopped while they run
NextLive ==
    \/ \E catchup, newOk, startOk \in BOOLEAN : StartBeacon(catchup, newOk, startOk)
    \/ StopBeacon
    \/ \E a \in Addrs : StreamCheck(a, 0)
    \/ \E a \in Addrs : StreamLast(a)
    \/ \E a \in Addrs : StreamRegister(a)
    \/ \E a \in Addrs : StreamReturn(a)
    \/ \E g \in Handles, fails \in SUBSET Addrs : Produce(g, fails)

SpecLive == InitBeacon /\ [][NextLive]_vars

\* ---- an instance right after a resharing DKG, about to call transition
InitTrans ==
    /\ IdleServer /\ IdleRpc /\ IdleFactory
    /\ \E T \in 2 .. MaxTime :
         /\ group = [OldGroup EXCEPT !.run = 2, !.pubKey = 2, !.transitionTime = T]
         /\ kstore = [share |-> 2, group |-> group]
    /\ share = 2 /\ runs = 1
    /\ manager = 0 /\ receiver = 0
    /\ dkgInfo = NoDkg /\ wait = NoWait /\ state = "free"
    /\ \E oldPresent, newPresent, hasBeacon \in BOOLEAN :
         /\ hasBeacon => oldPresent
         /\ tr = [NoTr EXCEPT !.oldPresent = oldPresent, !.newPresent = newPresent]
         /\ beacon = IF hasBeacon THEN 1 ELSE 0
         /\ gens = [h \in Handles |->
                      IF h = 1 /\ hasBeacon
                      THEN [NoGen EXCEPT !.created = TRUE, !.running = TRUE]
                      ELSE NoGen]
    /\ chain = <<>> /\ sub = NoSubs /\ pb = NoPb /\ crashed = FALSE
    /\ now = 0 /\ produced = {}

NextTrans ==
    \/ \E oldPresent, newPresent, newOk, syncOk \in BOOLEAN :
         Transition(oldPresent, newPresent, newOk, syncOk)
    \/ \E quorum, atStop \in BOOLEAN : Tick(quorum, atStop)

SpecTrans == InitTrans /\ [][NextTrans]_vars

-----------------------------------------------------------------------------
\* Claims

Registered == { k \in Keys : protocols[k] # 0 }
Running    == { h \in Handles : gens[h].running }
Count(q, x) == Cardinality({ i \in DOMAIN q : q[i] = x })

\* C1: every completed dispatch is answered by the identifier it carried and
\* the registry: empty identifier with an alias -> the instance under the
\* alias; empty identifier without alias -> MissingIdentifier, nobody invoked;
\* unknown identifier -> UnknownNetwork, nobody invoked; otherwise exactly the
\* instance registered under the identifier.
C1_Dispatch ==
    [][ (disp' # disp /\ disp'.pc = "done") =>
          LET in == disp'.in
          IN /\ (in = 0 /\ v1ID # 0) =>
                    /\ disp'.result = "dispatched"
                    /\ disp'.target # 0
                    /\ disp'.target = Lookup(v1ID)
             /\ (in = 0 /\ v1ID = 0) =>
                    /\ disp'.result = "MissingIdentifier"
                    /\ disp'.target = 0
             /\ (in # 0 /\ Lookup(in) = 0) =>
                    /\ disp'.result = "UnknownNetwork"
                    /\ disp'.target = 0
             /\ (in # 0 /\ Lookup(in) # 0) =>
                    /\ disp'.result = "dispatched"
                    /\ disp'.target = Lookup(in) ]_vars

\* C1 witness: an empty identifier was routed to the alias instance while
\* another network is registered too.
C1_Witness ==
    /\ disp.pc = "done" /\ disp.in = 0
    /\ disp.result = "dispatched"
    /\ v1ID # 0 /\ disp.target = protocols[v1ID]
    /\ Cardinality(Registered) = 2

\* C10: once LoadProtocols has returned, the registry holds every folder whose
\* load succeeded, the aggregate has one entry per failed folder, and the
\* returned value is an error exactly when some folder failed.
C10_LoadReport ==
    loadPc = "done" =>
        LET failed == { i \in DOMAIN protoConfigs : ~protoConfigs[i].loadOk }
        IN /\ \A i \in DOMAIN protoConfigs :
                protoConfigs[i].loadOk => protocols[protoConfigs[i].key] = i
           /\ Cardinality({ j \in DOMAIN errs : errs[j] = "load" })
                = Cardinality(failed)
           /\ (loadRet # "nil") <=> (failed # {})

\* C2: a stream that replays from its start round s sends s, s+1, s+2, ...:
\* nothing twice, nothing skipped between the replayed and the pushed rounds.
C2_GapFree ==
    \A a \in Addrs :
        sub[a].replayed =>
            \A i \in DOMAIN sub[a].sent : sub[a].sent[i] = sub[a].req + i - 1

C4_QualifiedNodes ==
    (wait.pc = "done" /\ wait.err = "nil") =>
        LET out == wait.out.nodes
        IN /\ group = wait.out
           /\ Elems(out) = Elems(wait.invited) \cap Elems(wait.qual)
           /\ \A n \in Elems(out) : Count(out, n) = 1

\* C4 witness: a successful run that dropped an invited node the DKG did not
\* qualify.
C4_Witness ==
    /\ wait.pc = "done" /\ wait.err = "nil"
    /\ Len(wait.invited) = 2 /\ Len(wait.out.nodes) = 1
    /\ \E n \in Elems(wait.invited) : n \notin Elems(wait.qual)

\* C5: after WaitDKG has returned, the run's Share is on disk if and only if
\* the run's Group is on disk.
C5_ShareIffGroup ==
    (wait.pc = "done" /\ wait.run # 0) =>
        ((kstore.share = wait.run)
            <=> (kstore.group.set /\ kstore.group.run = wait.run))

\* C6: whatever StartBeacon calls were made, at most one generator is active.
C6_OneGenerator == Cardinality(Running) <= 1

\* C7: StopBeacon returns without error and leaves the handle absent; on a
\* present handle it stops that generator once and touches no other, on an
\* absent handle it calls Stop on nothing.
C7_StopIdempotent ==
    [][ (callBit' # callBit /\ ret'.op = "StopBeacon") =>
          /\ ret'.err = "nil"
          /\ beacon' = 0
          /\ IF beacon = 0
             THEN gens' = gens
             ELSE /\ ~gens'[beacon].running
                  /\ gens'[beacon].stops = gens[beacon].stops + 1
                  /\ gens[beacon].stops = 0
                  /\ \A h \in Handles \ {beacon} : gens'[h] = gens[h] ]_vars

\* C7 witness: StopBeacon was just called on an absent handle, after an
\* earlier call had stopped a generator.
C7_Witness ==
    /\ ret.op = "StopBeacon" /\ ret.req = 0
    /\ beacon = 0
    /\ \E h \in Handles : gens[h].stops = 1

BeaconNotStarted == {"drand: beacon not setup yet",
                     "drand: beacon generation not started yet",
                     "beacon has not started on this node yet"}

C9_NotStarted ==
    [][ beacon = 0 =>
          /\ (callBit' # callBit
                /\ ret'.op \in {"PartialBeacon", "PublicRand", "SyncChain"}) =>
                 /\ ret'.err \in BeaconNotStarted
                 /\ UNCHANGED <<dkgVars, beacon, gens>>
          /\ \A a \in Addrs :
               (sub[a].pc = "idle" /\ sub'[a].pc # "idle") =>
                 /\ sub'[a].pc = "done"
                 /\ sub'[a].err \in BeaconNotStarted
                 /\ UNCHANGED <<dkgVars, beacon, gens>> ]_vars

\* C11: once LoadProtocols has returned with legacy (V1) folders loaded, the
\* first of them is registered and is the alias, every later one is absent
\* from the registry, and each later one left one duplicate error.
LegacyLoaded == { i \in DOMAIN protoConfigs :
                    protoConfigs[i].version = VERSION_1 /\ protoConfigs[i].loadOk }

C11_OneLegacy ==
    (loadPc = "done" /\ LegacyLoaded # {}) =>
        LET first == CHOOSE i \in LegacyLoaded : \A j \in LegacyLoaded : i <= j
        IN /\ v1ID = protoConfigs[first].key
           /\ protocols[protoConfigs[first].key] = first
           /\ \A i \in LegacyLoaded \ {first} :
                protocols[protoConfigs[i].key] = 0
           /\ Cardinality({ j \in DOMAIN errs :
                              errs[j] = "V1 duplicate protocol found" })
                = Cardinality(LegacyLoaded) - 1

C13_FirstWins == \A v \in Versions : factoryOf[v] = regFirst[v]

\* C14: getProtocolFactory(v) fails with the blacklist error when v is
\* blacklisted, registered or not; else with the unknown-version error when
\* v is not registered; else it returns the factory registered for v.
C14_Lookup ==
    [][ got' # got =>
          LET v == got'.v
          IN /\ v \in denied => got'.out = "panic: blacklisted protocol"
             /\ (v \notin denied /\ factoryOf[v] = "none") =>
                    got'.out = "panic: no registered protocols for this version"
             /\ (v \notin denied /\ factoryOf[v] # "none") =>
                    got'.out = factoryOf[v] ]_vars

\* C14 witness: a version both registered and blacklisted was asked for and
\* refused as blacklisted.
C14_Witness ==
    /\ got.v \in denied /\ factoryOf[got.v] # "none"
    /\ got.out = "panic: blacklisted protocol"

\* C15: the load constructor returns an instance exactly when the key pair
\* and the Group load, whatever the self-signature check said; that instance
\* has the stored Group, dkgDone set, no DKG session and no generator.
C15_Loaded ==
    loaded.called =>
        IF loaded.keyOk /\ loaded.groupOk
        THEN /\ loaded.out.err = "nil"
             /\ loaded.out.inst.present
             /\ loaded.out.inst.group = kstore.group
             /\ loaded.out.inst.group.set
             /\ loaded.out.inst.dkgDone
             /\ ~loaded.out.inst.dkgInfo.set
             /\ loaded.out.inst.beacon = 0
             /\ loaded.out.warned = ~loaded.sigOk
        ELSE /\ loaded.out.err # "nil"
             /\ ~loaded.out.inst.present

\* C15 witness: a load with an invalid self-signature that returned the
\* instance, warning logged.
C15_Witness ==
    /\ loaded.called /\ ~loaded.sigOk
    /\ loaded.out.err = "nil" /\ loaded.out.warned
    /\ loaded.out.inst.group = OldGroup

\* C16: when a generator completes a round, the process lives on and no
\* callback hangs on its done channel; a subscriber whose push failed is
\* registered on no generator any more and has the error waiting for its
\* call; every other subscriber keeps its registration, and gets the round
\* when it is registered on that generator.
Delivered(a) == sub'[a].sent # sub[a].sent
PushFailed(a) == sub'[a].sent = sub[a].sent /\ sub'[a] # sub[a]

C16_FailureIsolated ==
    [][ chain' # chain =>
          /\ ~crashed'
          /\ \A a \in Addrs :
               /\ ~sub'[a].cbBlocked
               /\ IF PushFailed(a)
                  THEN /\ sub'[a].done = "err"
                       /\ \A h \in Handles : a \notin gens'[h].callbacks
                  ELSE /\ \A h \in Handles :
                            (a \in gens'[h].callbacks) <=> (a \in gens[h].callbacks)
                       /\ Delivered(a) =>
                            sub'[a].sent = Append(sub[a].sent, Last(chain')) ]_vars

\* C17: a PublicRandStream call whose context has ended can always take a
\* step of its own towards returning, whether or not a round is produced.
C17_CtxReturns ==
    \A a \in Addrs :
        (sub[a].ctx = "ended" /\ sub[a].pc \notin {"idle", "done"}) =>
            ENABLED (\/ StreamLast(a)
                     \/ \E sendOk \in BOOLEAN : StreamReplay(a, sendOk)
                     \/ StreamRegister(a)
                     \/ StreamReturn(a))

\* C18: the step that completes a WaitDKG leaves no session of that run on
\* the instance; when it completes with the DKG's error, the store, the Group
\* and the Share are what they were; and a WaitDKG begun after a completed
\* one never waits on the same session again.
C18_FailureDiscards ==
    [][ /\ (wait.pc # "done" /\ wait'.pc = "done" /\ wait'.run # 0) =>
             /\ ~(dkgInfo'.set /\ dkgInfo'.run = wait'.run)
             /\ wait'.err = "drand: error from dkg" =>
                    UNCHANGED <<kstore, group, share>>
        /\ (wait.pc = "done" /\ wait.run # 0 /\ wait'.pc = "waiting") =>
             wait'.run # wait.run ]_vars

\* C19: BroadcastDKG and WaitDKG without a DKG session, SignalDKGParticipant
\* without a manager and PushDKGInfo without a receiver each return their
\* error and leave the instance as it was.
Instance == <<group, share, dkgInfo, kstore, runs, manager, receiver, beacon>>

C19_NoSetup ==
    [][ /\ (callBit' # callBit /\ ret'.op = "BroadcastDKG" /\ ~dkgInfo.set) =>
             (ret'.err = "drand: no dkg running" /\ UNCHANGED Instance)
        /\ (callBit' # callBit /\ ret'.op = "SignalDKGParticipant"
                /\ manager = 0) =>
             (ret'.err = "no manager" /\ UNCHANGED Instance)
        /\ (callBit' # callBit /\ ret'.op = "PushDKGInfo" /\ receiver = 0) =>
             (ret'.err = "no receiver setup" /\ UNCHANGED Instance)
        /\ (wait.pc \in {"idle", "done"} /\ wait' # wait /\ ~dkgInfo.set) =>
             /\ wait'.pc = "done" /\ wait'.err = "no dkg info set"
             /\ UNCHANGED Instance ]_vars

\* C19 witness: with a receiver but neither session nor manager, WaitDKG and
\* SignalDKGParticipant were both refused.
C19_Witness ==
    /\ ~dkgInfo.set /\ manager = 0 /\ receiver # 0
    /\ wait.pc = "done" /\ wait.err = "no dkg info set"
    /\ ret.op = "SignalDKGParticipant" /\ ret.err = "no manager"

\* C20: a transition of a node in neither Group, or of a leaving or
\* continuing node that has no generator, ends with an error for the caller,
\* the process alive and the instance as it was.
Inconsistent ==
    \/ ~tr.oldPresent /\ ~tr.newPresent
    \/ (~tr.newPresent \/ tr.oldPresent) /\ beacon = 0

C20_Inconsistent ==
    [][ (tr.pc = "idle" /\ Inconsistent /\ (tr' # tr \/ crashed' # crashed)) =>
          /\ ~crashed'
          /\ tr'.pc = "done" /\ tr'.err \notin {"none", "nil"}
          /\ UNCHANGED <<beacon, gens, group, share, kstore>> ]_vars

\* C21: a transition whose collaborators succeed does exactly one of three
\* things, chosen by membership. A leaving node (old Group only) schedules its
\* running generator to stop at the transition time minus one and creates no
\* generator. A continuing node (both Groups) hands the new Group to its
\* running generator, which is neither stopped nor replaced. A joining node
\* (new Group only) creates a fresh generator that syncs from the old Group,
\* starts at the transition time and is the instance's running generator.
Created(gs) == { h \in Handles : gs[h].created }

C22_NoLatePartial ==
    [][ (pb.pc = "process" /\ pb'.pc = "idle") =>
          gens[pb.inst].stops = 0 ]_vars

\* C23: WaitDKG does not hold the instance lock while it waits for the DKG
\* result: during the wait the lock is free and BroadcastDKG,
\* SignalDKGParticipant, PublicRand and ChainInfo can each take it and
\* complete; WaitDKG holds the lock again exactly while it consumes the result.
C23_WaitUnlocked ==
    /\ wait.pc \in {"waiting", "received"} =>
          /\ state = "free"
          /\ ENABLED BroadcastDKG(TRUE)
          /\ ENABLED SignalDKGParticipant(TRUE)
          /\ ENABLED PublicRand(0)
          /\ ENABLED ChainInfo
    /\ wait.pc = "consume" <=> state = "WaitDKG"
    /\ wait.pc = "consume" =>
          /\ ~ENABLED BroadcastDKG(TRUE)
          /\ ~ENABLED ChainInfo

\* C23 witness: WaitDKG is waiting on a session whose first packet was
\* broadcast and the last RPC, a ChainInfo, completed with the lock free.
C23_Witness ==
    /\ wait.pc = "waiting" /\ state = "free"
    /\ dkgInfo.set /\ dkgInfo.run = wait.run /\ dkgInfo.started
    /\ ret.op = "ChainInfo" /\ ret.err = "nil"

\* C24: within one DKG session the phased timer is started at most once and
\* never before the first start signal: creating the session leaves the
\* started flag clear and the timer unstarted, the first BroadcastDKG of the
\* session sets the flag and starts the timer, and every later packet leaves
\* the flag set without starting the timer again.
C24_TimerOnce ==
    [][ /\ dkgInfo'.phaserStarts <= 1
        /\ dkgInfo'.started <=> dkgInfo'.phaserStarts = 1
        /\ (dkgInfo'.set /\ dkgInfo'.run # dkgInfo.run) =>
              (~dkgInfo'.started /\ dkgInfo'.phaserStarts = 0)
        /\ (callBit' # callBit /\ ret'.op = "BroadcastDKG" /\ dkgInfo.set) =>
              /\ dkgInfo'.started
              /\ dkgInfo'.phaserStarts = IF dkgInfo.started
                                         THEN dkgInfo.phaserStarts ELSE 1
        /\ (/\ ~(callBit' # callBit /\ ret'.op = "BroadcastDKG")
            /\ dkgInfo'.set /\ dkgInfo'.run = dkgInfo.run) =>
                 /\ dkgInfo'.started = dkgInfo.started
                 /\ dkgInfo'.phaserStarts = dkgInfo.phaserStarts ]_vars

\* C24 witness: the session WaitDKG waits on has its timer started once, and
\* the last packet broadcast for it was refused by the board.
C24_Witness ==
    /\ dkgInfo.set /\ dkgInfo.started /\ dkgInfo.phaserStarts = 1
    /\ wait.pc = "waiting" /\ wait.run = dkgInfo.run
    /\ ret.op = "BroadcastDKG" /\ ret.err = "board"

\* C25: the registry is only mutated under the write lock and only read by a
\* dispatch under the read lock, so no dispatch reads the alias or the map
\* while LoadProtocols stands between the two writes of one registration (the
\* instance is in the map, its alias is not yet set).
C25_NoTornRead ==
    [][ disp' # disp => loadPc # "alias" ]_vars

\* C26: whenever the legacy alias is set, the registry holds an instance under
\* it and that instance is a legacy (V1) one; hence a dispatch of an empty
\* identifier is never answered UnknownNetwork and never reaches an instance
\* of another version.
AliasLegacy ==
    v1ID # 0 => /\ Lookup(v1ID) # 0
                /\ protoConfigs[Lookup(v1ID)].version = VERSION_1

C26_AliasLegacy ==
    [][ /\ AliasLegacy'
        /\ (disp' # disp /\ disp'.pc = "done" /\ disp'.in = 0) =>
              /\ disp'.result # "UnknownNetwork"
              /\ disp'.result = "dispatched" =>
                    protoConfigs[disp'.target].version = VERSION_1 ]_vars

\* C26 witness: two legacy folders were loaded, the alias is the first one's
\* key and an empty identifier was dispatched to that instance.
C26_Witness ==
    /\ loadPc = "done" /\ Cardinality(LegacyLoaded) = 2
    /\ v1ID # 0 /\ protocols[v1ID] = 1
    /\ disp.pc = "done" /\ disp.in = 0 /\ disp.result = "dispatched"
    /\ disp.target = protocols[v1ID]

\* C27: PublicRandStream never uses an absent generator handle: when the
\* handler of caller a registers its callback (whatever StopBeacon did since
\* its check), the process lives on and the callback is added on the
\* generator the handler captured under the lock, and on that one only.
C27_CapturedHandle ==
    [][ \A a \in Addrs :
          (/\ sub[a].pc = "register" /\ chain' = chain
           /\ (sub'[a] # sub[a] \/ crashed' # crashed)) =>
              /\ ~crashed'
              /\ gens' = [gens EXCEPT ![sub[a].b].callbacks = @ \cup {a}] ]_vars

\* C28: a WaitDKG that returns an error (the DKG failed, SaveShare failed or
\* SaveGroup failed) leaves the in-memory Group and Share as they were before
\* the call.
C28_ErrorKeepsPair ==
    [][ (wait.pc # "done" /\ wait'.pc = "done" /\ wait'.err # "nil") =>
          UNCHANGED <<group, share>> ]_vars

====
